---- MODULE Spec2Model ----
(***************************************************************************)
(* Model of the Monkey front end: the Lexer (src/src/lexer/lexer.rs), the  *)
(* token table (src/src/token/token.rs) and the Parser                     *)
(* (src/src/parser/parser.rs).                                             *)
(*                                                                         *)
(* A character is a one-character string (NUL and the characters outside   *)
(* ASCII are written by name); a text is a sequence of characters.  A      *)
(* token literal is a string, built by concatenation.                      *)
(* Option<T> is a sequence of length at most one: None is << >>, Some(t)   *)
(* is <<t>>.                                                               *)
(***************************************************************************)
EXTENDS Integers, Sequences, FiniteSets, TLC

VARIABLES
    lexer,        \* the Lexer: input, position, read_position, ch (+ panic mark)
    tok,          \* LexSpec: Option of the token the last Lexer::next_token returned
    cur_token,    \* Parser.cur_token : Option<Token>
    peek_token,   \* Parser.peek_token : Option<Token>
    errors,       \* Parser.errors : Vec<String>
    statements,   \* program.statements of the running parse_program
    local,        \* locals of the statement parser suspended in its skip loop
    pc,           \* position of the caller: in parse_program, or "lex" in LexSpec
    panicked,     \* TRUE once a panic has unwound the caller
    source,       \* Spec: the tokens of the source text up to its first EOF;
                  \* set at construction and read by the properties only
    emitted       \* LexSpec, ReplSpec: the tokens Lexer::next_token has returned
                  \* to its caller so far, in order (the REPL prints them)

vars == <<lexer, tok, cur_token, peek_token, errors, statements, local, pc,
          panicked, source, emitted>>

-----------------------------------------------------------------------------
(* Bounds *)

\* longest text (in characters) the Lexer specification draws
MaxLen == 4
\* most chunks of source text the Parser specification concatenates
MaxChunks == 3
\* how many characters past the end of its input the Lexer is followed
MaxOverrun == 4
\* LexSpec: the longest text put together from words has MaxWords words
MaxWords == 2
\* RenderSpec: the longest identifier (in characters) a LetStatement is given
MaxName == 3
\* ReplSpec: the longest line (in characters) read from standard input
MaxLine == 3

-----------------------------------------------------------------------------
(* Characters *)

\* '\0': the Lexer's end-of-input sentinel; it can also occur inside a text
NUL == "NUL"

\* U+00E9, alphabetic, two bytes in UTF-8
EAcute == "U+00E9"
\* U+00A7, neither alphabetic nor numeric, two bytes in UTF-8
Section == "U+00A7"
\* U+00BD VULGAR FRACTION ONE HALF, numeric, two bytes in UTF-8
OneHalf == "U+00BD"

AsciiLetters ==
    {"a", "b", "c", "d", "e", "f", "g", "h", "i", "j", "k", "l", "m",
     "n", "o", "p", "q", "r", "s", "t", "u", "v", "w", "x", "y", "z",
     "A", "B", "C", "D", "E", "F", "G", "H", "I", "J", "K", "L", "M",
     "N", "O", "P", "Q", "R", "S", "T", "U", "V", "W", "X", "Y", "Z"}

AsciiDigits == {"0", "1", "2", "3", "4", "5", "6", "7", "8", "9"}

\* char::is_alphabetic
IsAlphabetic(c) == c \in AsciiLetters \cup {EAcute}

\* char::is_numeric
IsNumeric(c) == c \in AsciiDigits \cup {OneHalf}

\* char::len_utf8
LenUtf8(c) == IF c \in {EAcute, Section, OneHalf} THEN 2 ELSE 1

-----------------------------------------------------------------------------
(* Strings: String::len, chars().nth, byte-range slices *)

RECURSIVE ByteOff(_, _)
\* byte offset of the character with 0-based index i (i = Len(s): the end)
ByteOff(s, i) == IF i = 0 THEN 0 ELSE LenUtf8(s[i]) + ByteOff(s, i - 1)

\* String::len: the length in bytes
ByteLen(s) == ByteOff(s, Len(s))

RECURSIVE CharAtByte(_, _, _, _)
\* walking from character i at byte offset off: the 0-based index of the
\* character that starts at byte b (Len(s) for the end), -1 if there is none
CharAtByte(s, i, off, b) ==
    IF off = b THEN i
    ELSE IF off > b \/ i = Len(s) THEN -1
    ELSE CharAtByte(s, i + 1, off + LenUtf8(s[i + 1]), b)

\* str::is_char_boundary
IsCharBoundary(s, b) == CharAtByte(s, 0, 0, b) # -1

\* chars().nth(n): Option<char>
CharsNth(s, n) == IF n < Len(s) THEN <<s[n + 1]>> ELSE << >>

RECURSIVE Concat(_)
\* the String made of the characters cs
Concat(cs) == IF cs = << >> THEN "" ELSE Head(cs) \o Concat(Tail(cs))

\* the byte range a..b of s as 0-based character indices <<i, j>>: i is the
\* character that starts at byte a, j the one that starts at byte b, found by
\* walking on from i; each is -1 where the offset is no character boundary
\* (an offset past the end is none), and j is -1 when a > b
SliceBounds(s, a, b) ==
    CHOOSE sb \in {<<i, IF i = -1 THEN -1 ELSE CharAtByte(s, i, a, b)>> :
                        i \in {CharAtByte(s, 0, 0, a)}} : TRUE

\* &s[a..b] panics unless a <= b <= len and both are character boundaries
SliceOk(sb) == sb[1] # -1 /\ sb[2] # -1

\* the characters of &s[a..b]: those whose bytes lie in [a, b)
SliceChars(s, sb) == SubSeq(s, sb[1] + 1, sb[2])

-----------------------------------------------------------------------------
(* Token model: src/src/token/token.rs *)

ILLEGAL == "ILLEGAL"
EOF == "EOF"
IDENT == "IDENT"
INT == "INT"
ASSIGN == "="
PLUS == "+"
MINUS == "-"
BANG == "!"
ASTERISK == "*"
SLASH == "/"
LT == "<"
GT == ">"
EQ == "=="
NEQ == "!="
COMMA == ","
SEMICOLON == ";"
LPAREN == "("
RPAREN == ")"
LBRACE == "{"
RBRACE == "}"
FUNCTION == "FUNCTION"
LET_ == "LET"
TRUE_ == "TRUE"
FALSE_ == "FALSE"
IF_ == "IF"
ELSE_ == "ELSE"
RETURN == "RETURN"

Token(type, literal) == [type |-> type, literal |-> literal]

KEYWORDS ==
    <<  <<"fn", FUNCTION>>, <<"let", LET_>>, <<"true", TRUE_>>,
        <<"false", FALSE_>>, <<"if", IF_>>, <<"else", ELSE_>>,
        <<"return", RETURN>>  >>

\* Faulty variant of lookup_ident: the keyword table is not consulted.
lookup_ident_AlwaysIdent(ident) == IDENT

lookup_ident(ident) ==
    IF \E i \in 1..Len(KEYWORDS) : KEYWORDS[i][1] = ident
    THEN LET i == CHOOSE j \in 1..Len(KEYWORDS) :
                    /\ KEYWORDS[j][1] = ident
                    /\ \A k \in 1..(j - 1) : KEYWORDS[k][1] # ident
         IN  KEYWORDS[i][2]
    ELSE IDENT

-----------------------------------------------------------------------------
(* Lexer: src/src/lexer/lexer.rs *)

\* the one element of a set of one element; {e(x) : x \in {v}} gives the
\* name x to the value v in e
Only(S) == CHOOSE x \in S : TRUE

\* A String: its characters, and its length in bytes (String::len)
String(chars) == [chars |-> chars, len |-> ByteLen(chars)]

\* A Lexer value.  panic = TRUE marks that a call on it has unwound (unwrap
\* of None, or a slice that is out of range or off a character boundary);
\* nothing is done with a Lexer after that.
Lexer(input, position, read_position, ch) ==
    [input |-> input, position |-> position, read_position |-> read_position,
     ch |-> ch, panic |-> FALSE]

Whitespace == {" ", "\t", "\n", "\r"}

is_letter(ch) == IsAlphabetic(ch) \/ ch = "_"

\* position and read_position are u32; every guard keeps read_position within
\* MaxOverrun of the end of the input, so the increment never overflows here
read_char(l) ==
    IF l.panic THEN l
    ELSE IF l.read_position >= l.input.len
    THEN [l EXCEPT !.ch = NUL,
                   !.position = l.read_position,
                   !.read_position = l.read_position + 1]
    ELSE IF CharsNth(l.input.chars, l.read_position) = << >>
    THEN [l EXCEPT !.panic = TRUE]
    ELSE [l EXCEPT !.ch = CharsNth(l.input.chars, l.read_position)[1],
                   !.position = l.read_position,
                   !.read_position = l.read_position + 1]

\* Faulty variant of peak_char: it looks at position, the character under
\* the cursor, instead of read_position.
peak_char_AtPosition(l) ==
    IF l.position >= l.input.len
    THEN <<NUL>>
    ELSE CharsNth(l.input.chars, l.position)

\* Option<char>: None when the unwrap panics
peak_char(l) ==
    IF l.read_position >= l.input.len
    THEN <<NUL>>
    ELSE CharsNth(l.input.chars, l.read_position)

\* Lexer::new on the text made of the characters chars
Lexer_new(chars) == read_char(Lexer(String(chars), 0, 0, NUL))

RECURSIVE skip_whitespace_SpacesOnly(_)
\* Faulty variant of skip_whitespace: only the space character is skipped.
skip_whitespace_SpacesOnly(l) ==
    IF ~l.panic /\ l.ch = " "
    THEN skip_whitespace_SpacesOnly(read_char(l))
    ELSE l

RECURSIVE skip_whitespace(_)
skip_whitespace(l) ==
    IF ~l.panic /\ l.ch \in Whitespace
    THEN Only({skip_whitespace(l2) : l2 \in {read_char(l)}})
    ELSE l

\* Faulty variant of new_token: the sentinel is not turned into the empty
\* literal.
new_token_KeepsSentinel(token_type, ch) == Token(token_type, ch)

new_token(token_type, ch) ==
    Token(token_type, IF ch = NUL THEN "" ELSE ch)

RECURSIVE ReadWhileLetter(_)
\* the loop of read_identifier
ReadWhileLetter(l) ==
    IF ~l.panic /\ is_letter(l.ch)
    THEN Only({ReadWhileLetter(l2) : l2 \in {read_char(l)}})
    ELSE l

RECURSIVE ReadWhileNumeric(_)
\* the loop of read_number
ReadWhileNumeric(l) ==
    IF ~l.panic /\ IsNumeric(l.ch)
    THEN Only({ReadWhileNumeric(l2) : l2 \in {read_char(l)}})
    ELSE l

\* self.input[from..l.position].to_string(): the Lexer and Option<String>
SliceFrom(l, from) ==
    IF l.panic THEN [lexer |-> l, literal |-> << >>]
    ELSE Only({IF ~SliceOk(sb)
               THEN [lexer |-> [l EXCEPT !.panic = TRUE], literal |-> << >>]
               ELSE [lexer |-> l,
                     literal |-> <<Concat(SliceChars(l.input.chars, sb))>>] :
               sb \in {SliceBounds(l.input.chars, from, l.position)}})

read_identifier(l) ==
    Only({SliceFrom(l2, l.position) : l2 \in {ReadWhileLetter(l)}})

read_number(l) ==
    Only({SliceFrom(l2, l.position) : l2 \in {ReadWhileNumeric(l)}})

\* the arms of next_token's match that emit a one-character token
SingleCharArm ==
    [c \in {"+", "-", "*", "/", "<", ">", ";", "(", ")", "{", "}", ",", NUL} |->
        CASE c = "+" -> PLUS
          [] c = "-" -> MINUS
          [] c = "*" -> ASTERISK
          [] c = "/" -> SLASH
          [] c = "<" -> LT
          [] c = ">" -> GT
          [] c = ";" -> SEMICOLON
          [] c = "(" -> LPAREN
          [] c = ")" -> RPAREN
          [] c = "{" -> LBRACE
          [] c = "}" -> RBRACE
          [] c = "," -> COMMA
          [] c = NUL -> EOF]

\* Faulty variant of TwoCharArm: the literal of the two-character operator
\* holds its first character only.
TwoCharArm_ShortLiteral(l, two_type, one_type) ==
    LET pk == peak_char(l)
    IN  IF pk = << >>
        THEN [lexer |-> [l EXCEPT !.panic = TRUE], tok |-> << >>]
        ELSE IF pk[1] = "="
        THEN LET fch == l.ch
                 l2  == read_char(l)
             IN  IF l2.panic
                 THEN [lexer |-> l2, tok |-> << >>]
                 ELSE [lexer |-> l2, tok |-> <<Token(two_type, fch)>>]
        ELSE [lexer |-> l, tok |-> <<new_token(one_type, l.ch)>>]

\* the arms for '=' and '!': the two-character operator two_type when the
\* next character is '=', else the one-character one_type
TwoCharArm(l, two_type, one_type) ==
    LET pk == peak_char(l)
    IN  IF pk = << >>
        THEN [lexer |-> [l EXCEPT !.panic = TRUE], tok |-> << >>]
        ELSE IF pk[1] = "="
        THEN LET fch == l.ch
                 l2  == read_char(l)
             IN  IF l2.panic
                 THEN [lexer |-> l2, tok |-> << >>]
                 ELSE [lexer |-> l2, tok |-> <<Token(two_type, fch \o l2.ch)>>]
        ELSE [lexer |-> l, tok |-> <<new_token(one_type, l.ch)>>]

\* the match of next_token: the Lexer and the token before the final
\* read_char, and whether the arm returned early
MatchCh(l) ==
    CASE l.ch = "=" -> [r |-> TwoCharArm(l, EQ, ASSIGN), early |-> FALSE]
      [] l.ch = "!" -> [r |-> TwoCharArm(l, NEQ, BANG), early |-> FALSE]
      [] l.ch \in DOMAIN SingleCharArm ->
            [r |-> [lexer |-> l, tok |-> <<new_token(SingleCharArm[l.ch], l.ch)>>],
             early |-> FALSE]
      [] OTHER ->
            IF is_letter(l.ch)
            THEN LET ri == read_identifier(l)
                 IN  [r |-> [lexer |-> ri.lexer,
                             tok |-> IF ri.literal = << >> THEN << >>
                                     ELSE <<Token(lookup_ident(ri.literal[1]),
                                                  ri.literal[1])>>],
                      early |-> TRUE]
            ELSE IF IsNumeric(l.ch)
            THEN LET rn == read_number(l)
                 IN  [r |-> [lexer |-> rn.lexer,
                             tok |-> IF rn.literal = << >> THEN << >>
                                     ELSE <<Token(INT, rn.literal[1])>>],
                      early |-> TRUE]
            ELSE [r |-> [lexer |-> l, tok |-> <<new_token(ILLEGAL, l.ch)>>],
                  early |-> FALSE]

\* Faulty variant of Lexer::next_token: the identifier and number arms do
\* not return early, so the read_char that ends the function also runs
\* after them.
Lexer_next_token_NoEarlyReturn(l) ==
    LET l1 == skip_whitespace(l)
    IN  IF l1.panic THEN [lexer |-> l1, tok |-> << >>]
        ELSE LET m == MatchCh(l1)
             IN  IF m.r.lexer.panic
                 THEN m.r
                 ELSE LET l2 == read_char(m.r.lexer)
                      IN  IF l2.panic
                          THEN [lexer |-> l2, tok |-> << >>]
                          ELSE [lexer |-> l2, tok |-> m.r.tok]

\* Faulty variant of FinalReadChar: the read_char that ends next_token is
\* left out, so the Lexer stays on the character of the token it returned.
FinalReadChar_LeftOut(m) == m.r

\* the read_char that ends next_token, after the match gave m
FinalReadChar(m) ==
    Only({IF l2.panic
          THEN [lexer |-> l2, tok |-> << >>]
          ELSE [lexer |-> l2, tok |-> m.r.tok] : l2 \in {read_char(m.r.lexer)}})

\* next_token from its match on, whitespace skipped
AfterWhitespace(l1) ==
    Only({IF m.early \/ m.r.lexer.panic
          THEN m.r
          ELSE FinalReadChar(m) : m \in {MatchCh(l1)}})

\* Lexer::next_token: the Lexer after the call and Some(token), or a
\* panicked Lexer and None
Lexer_next_token(l) ==
    Only({IF l1.panic
          THEN [lexer |-> l1, tok |-> << >>]
          ELSE AfterWhitespace(l1) : l1 \in {skip_whitespace(l)}})

-----------------------------------------------------------------------------
(* AST model: src/src/ast/ast.rs *)

Identifier(token, value) ==
    [node |-> "Identifier", token |-> token, value |-> value]

LetStatement(token, name) ==
    [node |-> "LetStatement", token |-> token, name |-> name]

ReturnStatement(token) ==
    [node |-> "ReturnStatement", token |-> token]

ExpressionStatement(token, expression) ==
    [node |-> "ExpressionStatement", token |-> token, expression |-> expression]

\* Node::token_literal, the same for every node
token_literal(node) == node.token.literal

\* the texts of at most n characters of the alphabet
Texts(alphabet, n) == UNION {[1..k -> alphabet] : k \in 0..n}

\* the characters identifiers are written with in RenderSpec
NameAlphabet == {"l", "e", "t", "i", "f", "x", "_"}

\* the identifiers of RenderSpec, as texts
NameTexts == Texts(NameAlphabet, MaxName) \ {<< >>}

\* The characters of a String held as a literal: of "let", or of one of the
\* identifiers.  (A literal is a string here and a text is a sequence of
\* characters; both stand for the same Rust String.)
Chars(str) ==
    CHOOSE cs \in NameTexts \cup {<<"l", "e", "t">>,
                                  <<"r", "e", "t", "u", "r", "n">>} :
        Concat(cs) = str

\* Identifier::string
Identifier_string(ident) == Chars(ident.value)

\* Faulty variant of LetStatement::string: no space is put after the
\* token literal.
LetStatement_string_NoSpace(stmt) ==
    Chars(token_literal(stmt)) \o Identifier_string(stmt.name)
        \o <<" ", "=", " ">> \o <<";">>

\* LetStatement::string
LetStatement_string(stmt) ==
    (Chars(token_literal(stmt)) \o <<" ">>) \o Identifier_string(stmt.name)
        \o <<" ", "=", " ">> \o <<";">>

\* ReturnStatement::string
ReturnStatement_string(stmt) ==
    (Chars(token_literal(stmt)) \o <<" ">>) \o <<";">>

\* ExpressionStatement::string
ExpressionStatement_string(stmt) == Identifier_string(stmt.expression)

RECURSIVE Program_string(_)
\* Program::string on the statements stmts
Program_string(stmts) ==
    IF stmts = << >> THEN << >>
    ELSE (CASE Head(stmts).node = "LetStatement" ->
                    LetStatement_string(Head(stmts))
            [] Head(stmts).node = "ReturnStatement" ->
                    ReturnStatement_string(Head(stmts))
            [] OTHER -> ExpressionStatement_string(Head(stmts)))
         \o Program_string(Tail(stmts))

-----------------------------------------------------------------------------
(* Parser: src/src/parser/parser.rs *)

LOWEST == 1

\* A Parser value.  panic = TRUE marks that a call on it has unwound (panic!
\* or expect on None); a panic of its Lexer is marked in lexer.panic.
Parser(l, cur, peek, errs) ==
    [lexer |-> l, cur_token |-> cur, peek_token |-> peek, errors |-> errs,
     panic |-> FALSE]

Unwound(p) == p.panic \/ p.lexer.panic

\* the keys of prefix_parse_fns after Parser::new; the one value registered
\* is parse_identifier
prefix_parse_fns == {IDENT}

\* Faulty variant of Parser::next_token: it pulls two tokens from the Lexer
\* and keeps the second as peek.
Parser_next_token_DropsOne(p) ==
    LET r1 == Lexer_next_token(p.lexer)
        r  == Lexer_next_token(r1.lexer)
    IN  [p EXCEPT !.cur_token = p.peek_token,
                  !.peek_token = r.tok,
                  !.lexer = r.lexer]

\* Parser::next_token
Parser_next_token(p) ==
    LET r == Lexer_next_token(p.lexer)
    IN  [p EXCEPT !.cur_token = p.peek_token,
                  !.peek_token = r.tok,
                  !.lexer = r.lexer]

Parser_new(l) ==
    Parser_next_token(Parser_next_token(Parser(l, << >>, << >>, << >>)))

cur_token_is(p, token) ==
    p.cur_token # << >> /\ p.cur_token[1].type = token

peek_token_is(p, token) ==
    p.peek_token # << >> /\ p.peek_token[1].type = token

peek_error(p, token) ==
    IF p.peek_token = << >>
    THEN [p EXCEPT !.panic = TRUE]
    ELSE [p EXCEPT !.errors =
            Append(@, "expected next token to be " \o token \o ", got "
                        \o p.peek_token[1].type)]

\* Faulty variant of expect_peek: on a mismatch it records the error and
\* advances all the same.
expect_peek_AdvancesOnFailure(p, token) ==
    IF peek_token_is(p, token)
    THEN [p |-> Parser_next_token(p), ok |-> TRUE]
    ELSE [p |-> Parser_next_token(peek_error(p, token)), ok |-> FALSE]

\* expect_peek: the Parser after the call and the value returned
expect_peek(p, token) ==
    IF peek_token_is(p, token)
    THEN [p |-> Parser_next_token(p), ok |-> TRUE]
    ELSE [p |-> peek_error(p, token), ok |-> FALSE]

\* Faulty variant of parse_identifier: it builds the Identifier from
\* peek_token instead of cur_token.
parse_identifier_FromPeek(p) ==
    IF p.peek_token = << >>
    THEN [p |-> [p EXCEPT !.panic = TRUE], exp |-> << >>]
    ELSE [p |-> p,
          exp |-> <<Identifier(p.peek_token[1], p.peek_token[1].literal)>>]

\* parse_identifier: the prefix function registered for IDENT
parse_identifier(p) ==
    IF p.cur_token = << >>
    THEN [p |-> [p EXCEPT !.panic = TRUE], exp |-> << >>]
    ELSE [p |-> p,
          exp |-> <<Identifier(p.cur_token[1], p.cur_token[1].literal)>>]

\* parse_expression: the Parser after the call and Option<Expression>
parse_expression(p, precedence) ==
    IF p.cur_token = << >>
    THEN [p |-> [p EXCEPT !.panic = TRUE], exp |-> << >>]
    ELSE IF p.cur_token[1].type \notin prefix_parse_fns
    THEN [p |-> p, exp |-> << >>]
    ELSE parse_identifier(p)

\* What a statement parser hands back to parse_program: the Parser, the
\* Option<Statement> it returned, or at = "let_skip" / "return_skip" when it
\* stands in its loop that skips to the semicolon, with its locals.
Returned(p, stmt) == [p |-> p, stmt |-> stmt, at |-> "returned", local |-> << >>]

InLoop(p, at, loc) == [p |-> p, stmt |-> << >>, at |-> at, local |-> loc]

\* Faulty variant of parse_expression_statement: a `;` that follows the
\* expression is not consumed.
parse_expression_statement_KeepsSemicolon(p) ==
    IF p.cur_token = << >>
    THEN Returned(p, << >>)
    ELSE LET token == p.cur_token[1]
             pe    == parse_expression(p, LOWEST)
         IN  IF Unwound(pe.p) \/ pe.exp = << >>
             THEN Returned(pe.p, << >>)
             ELSE Returned(pe.p, <<ExpressionStatement(token, pe.exp[1])>>)

\* parse_expression_statement
parse_expression_statement(p) ==
    IF p.cur_token = << >>
    THEN Returned(p, << >>)
    ELSE LET token == p.cur_token[1]
             pe    == parse_expression(p, LOWEST)
         IN  IF Unwound(pe.p) \/ pe.exp = << >>
             THEN Returned(pe.p, << >>)
             ELSE Returned(IF peek_token_is(pe.p, SEMICOLON)
                           THEN Parser_next_token(pe.p)
                           ELSE pe.p,
                           <<ExpressionStatement(token, pe.exp[1])>>)

\* parse_let_statement up to the loop that skips to the semicolon
parse_let_statement(p) ==
    IF p.cur_token = << >> \/ p.cur_token[1].type # LET_
    THEN Returned([p EXCEPT !.cur_token = << >>], << >>)
    ELSE LET let_token == p.cur_token[1]
             e1 == expect_peek([p EXCEPT !.cur_token = << >>], IDENT)
         IN  IF ~e1.ok \/ Unwound(e1.p) \/ e1.p.cur_token = << >>
             THEN Returned(e1.p, << >>)
             ELSE LET identifier_token == e1.p.cur_token[1]
                      identifier == Identifier(identifier_token,
                                               identifier_token.literal)
                      e2 == expect_peek(e1.p, ASSIGN)
                  IN  IF ~e2.ok \/ Unwound(e2.p)
                      THEN Returned(e2.p, << >>)
                      ELSE InLoop(e2.p, "let_skip",
                                  <<LetStatement(let_token, identifier)>>)

\* Faulty variant of parse_return_statement: the next_token before the loop
\* is left out.
parse_return_statement_NoAdvance(p) ==
    IF p.cur_token = << >> \/ p.cur_token[1].type # RETURN
    THEN Returned([p EXCEPT !.cur_token = << >>], << >>)
    ELSE InLoop([p EXCEPT !.cur_token = << >>], "return_skip",
                <<ReturnStatement(p.cur_token[1])>>)

\* parse_return_statement up to the loop that skips to the semicolon
parse_return_statement(p) ==
    IF p.cur_token = << >> \/ p.cur_token[1].type # RETURN
    THEN Returned([p EXCEPT !.cur_token = << >>], << >>)
    ELSE LET return_token == p.cur_token[1]
             p1 == Parser_next_token([p EXCEPT !.cur_token = << >>])
         IN  IF Unwound(p1)
             THEN Returned(p1, << >>)
             ELSE InLoop(p1, "return_skip", <<ReturnStatement(return_token)>>)

\* Faulty variant of parse_statement: the RETURN arm is missing, so a
\* `return` falls through to parse_expression_statement.
parse_statement_NoReturnArm(p) ==
    IF p.cur_token = << >>
    THEN Returned([p EXCEPT !.panic = TRUE], << >>)
    ELSE CASE p.cur_token[1].type = LET_ -> parse_let_statement(p)
           [] OTHER -> parse_expression_statement(p)

\* parse_statement
parse_statement(p) ==
    IF p.cur_token = << >>
    THEN Returned([p EXCEPT !.panic = TRUE], << >>)
    ELSE CASE p.cur_token[1].type = LET_ -> parse_let_statement(p)
           [] p.cur_token[1].type = RETURN -> parse_return_statement(p)
           [] OTHER -> parse_expression_statement(p)

-----------------------------------------------------------------------------
(* The Lexer driven by a caller that keeps asking for tokens *)

\* the characters the texts of LexSpec are made of
LexAlphabet == {"=", "!", ";", " ", "x", "5", "@", NUL, EAcute, Section}

\* the lexemes the longer texts of LexSpec are put together from: the
\* keywords, words that open with or end a keyword, identifiers, digits,
\* operators and the four whitespace characters
LexWords ==
    {<<"f", "n">>, <<"l", "e", "t">>, <<"t", "r", "u", "e">>,
     <<"f", "a", "l", "s", "e">>, <<"i", "f">>, <<"e", "l", "s", "e">>,
     <<"r", "e", "t", "u", "r", "n">>,
     <<"t", "e", "r">>, <<"x">>, <<"_">>, <<"1", "0">>, <<"+">>, <<";">>,
     <<"=">>, <<" ">>, <<"\t">>, <<"\n">>, <<"\r">>}

RECURSIVE Flatten(_)
\* the words ws one after the other, nothing between them
Flatten(ws) == IF ws = << >> THEN << >> ELSE Head(ws) \o Flatten(Tail(ws))

\* the texts a Lexer is built over in LexSpec
LexTexts ==
    Texts(LexAlphabet, MaxLen)
        \cup {Flatten(ws) : ws \in Texts(LexWords, MaxWords)}

IsAscii(s) == \A i \in 1..Len(s) : LenUtf8(s[i]) = 1

LexInit ==
    /\ lexer \in {Lexer_new(input) : input \in LexTexts}
    /\ tok = << >>
    /\ cur_token = << >>
    /\ peek_token = << >>
    /\ errors = << >>
    /\ statements = << >>
    /\ local = << >>
    /\ pc = "lex"
    /\ panicked = FALSE
    /\ source = << >>
    /\ emitted = << >>

\* one call l.next_token() by the owner of the Lexer
LexerNextToken ==
    /\ pc = "lex"
    /\ ~panicked
    /\ lexer.read_position < lexer.input.len + MaxOverrun
    /\ \E r \in {Lexer_next_token(lexer)} :
           /\ lexer' = r.lexer
           /\ tok' = r.tok
           /\ emitted' = emitted \o r.tok
           /\ panicked' = r.lexer.panic
    /\ UNCHANGED <<cur_token, peek_token, errors, statements, local, pc, source>>

LexNext == LexerNextToken

LexSpec == LexInit /\ [][LexNext]_vars

-----------------------------------------------------------------------------
(* The REPL: src/src/repl/repl.rs *)

\* the characters of the lines typed at the REPL
ReplAlphabet == {"x", "5", "=", " ", "\n", Section}

\* the lines read_line can return
ReplLines == Texts(ReplAlphabet, MaxLine)

\* start() is about to print the prompt and read its first line; no Lexer
\* exists yet (the variable holds an unconstructed one)
ReplInit ==
    /\ lexer = Lexer(String(<< >>), 0, 0, NUL)
    /\ tok = << >>
    /\ cur_token = << >>
    /\ peek_token = << >>
    /\ errors = << >>
    /\ statements = << >>
    /\ local = << >>
    /\ pc = "repl_prompt"
    /\ panicked = FALSE
    /\ source = << >>
    /\ emitted = << >>

\* the outer loop: prompt, read_line, Lexer::new(ins)
ReplReadLine ==
    /\ pc = "repl_prompt"
    /\ \E ins \in ReplLines : lexer' = Lexer_new(ins)
    /\ tok' = << >>
    /\ emitted' = << >>
    /\ pc' = "repl_tokens"
    /\ UNCHANGED <<cur_token, peek_token, errors, statements, local, panicked,
                   source>>

\* one turn of the inner loop: next_token, println, break on EOF
ReplPrintToken ==
    /\ pc = "repl_tokens"
    /\ \E r \in {Lexer_next_token(lexer)} :
           /\ lexer' = r.lexer
           /\ tok' = r.tok
           /\ emitted' = emitted \o r.tok
           /\ panicked' = r.lexer.panic
           /\ pc' = IF r.lexer.panic THEN "panic"
                    ELSE IF r.tok[1].type = EOF THEN "repl_break"
                    ELSE pc
    /\ UNCHANGED <<cur_token, peek_token, errors, statements, local, source>>

\* the inner loop has been left: the iteration of the outer loop ends, the
\* Lexer and the token go out of scope
ReplEndIteration ==
    /\ pc = "repl_break"
    /\ lexer' = Lexer(String(<< >>), 0, 0, NUL)
    /\ tok' = << >>
    /\ emitted' = << >>
    /\ pc' = "repl_prompt"
    /\ UNCHANGED <<cur_token, peek_token, errors, statements, local, panicked,
                   source>>

ReplNext == ReplReadLine \/ ReplPrintToken \/ ReplEndIteration

\* the inner loop is straight-line code that keeps running
ReplSpec == ReplInit /\ [][ReplNext]_vars /\ WF_vars(ReplPrintToken)

-----------------------------------------------------------------------------
(* A Program built by hand is rendered with string() and the text is lexed *)

\* a Program of one LetStatement, built as test_string builds it; no Lexer
\* exists yet (the variable holds an unconstructed one)
RenderInit ==
    /\ \E n \in NameTexts :
          /\ lookup_ident(Concat(n)) = IDENT
          /\ statements =
                <<LetStatement(Token(LET_, "let"),
                               Identifier(Token(IDENT, Concat(n)), Concat(n)))>>
    /\ lexer = Lexer(String(<< >>), 0, 0, NUL)
    /\ tok = << >>
    /\ cur_token = << >>
    /\ peek_token = << >>
    /\ errors = << >>
    /\ local = << >>
    /\ pc = "string"
    /\ panicked = FALSE
    /\ source = << >>
    /\ emitted = << >>

\* program.string(), and a Lexer is made over the text
RenderString ==
    /\ pc = "string"
    /\ lexer' = Lexer_new(Program_string(statements))
    /\ pc' = "lex"
    /\ UNCHANGED <<tok, cur_token, peek_token, errors, statements, local,
                   panicked, source, emitted>>

RenderNext == RenderString \/ LexerNextToken

RenderSpec == RenderInit /\ [][RenderNext]_vars

-----------------------------------------------------------------------------
(* parse_program on a Parser built over the Lexer of a source text *)

\* the pieces of source text the inputs of Spec are put together from:
\* single lexemes, the opening of a let statement, whole statements
Chunks ==
    {<<"l", "e", "t">>,
     <<"r", "e", "t", "u", "r", "n">>,
     <<"x">>,
     <<"=">>,
     <<";">>,
     <<"5">>,
     <<"@">>,
     <<"l", "e", "t", " ", "x">>,
     <<"l", "e", "t", " ", "y", " ", "=", " ", "5", ";">>,
     <<"l", "e", "t", " ", "z", " ", "=", " ", "1", ";">>,
     <<"r", "e", "t", "u", "r", "n", " ", "5", ";">>}

RECURSIVE JoinChunks(_)
\* the chunks cs in order, one space between neighbours
JoinChunks(cs) ==
    IF cs = << >> THEN << >>
    ELSE IF Len(cs) = 1 THEN cs[1]
    ELSE cs[1] \o <<" ">> \o JoinChunks(Tail(cs))

Sources == {JoinChunks(cs) : cs \in Texts(Chunks, MaxChunks)}

\* the Parser made of the variables
Self ==
    [lexer |-> lexer, cur_token |-> cur_token, peek_token |-> peek_token,
     errors |-> errors, panic |-> panicked]

\* the variables take the fields of the Parser p
Becomes(p) ==
    /\ lexer' = p.lexer
    /\ cur_token' = p.cur_token
    /\ peek_token' = p.peek_token
    /\ errors' = p.errors
    /\ panicked' = Unwound(p)

RECURSIVE LexAll(_)
\* the tokens next_token returns from l on, up to the first EOF
LexAll(l) ==
    LET r == CHOOSE x \in {Lexer_next_token(l)} : TRUE
    IN  IF r.tok = << >> \/ r.tok[1].type = EOF
        THEN << >>
        ELSE r.tok \o LexAll(r.lexer)

\* Parser::new(Lexer::new(input)), and parse_program has made its empty
\* Program
Init ==
    /\ \E input \in Sources :
        \E p \in {Parser_new(Lexer_new(input))} :
             /\ source = LexAll(Lexer_new(input))
             /\ lexer = p.lexer
             /\ cur_token = p.cur_token
             /\ peek_token = p.peek_token
             /\ errors = p.errors
             /\ panicked = Unwound(p)
    /\ tok = << >>
    /\ emitted = << >>
    /\ statements = << >>
    /\ local = << >>
    /\ pc = "parse_program"

\* Faulty variant of EndIteration: the statement is put at the front of
\* program.statements instead of being pushed at the end.
EndIteration_PushFront(p, stmt) ==
    \E p1 \in {Parser_next_token(p)} :
        /\ statements' = stmt \o statements
        /\ Becomes(p1)
        /\ pc' = IF Unwound(p1) THEN "panic" ELSE "parse_program"
        /\ local' = << >>

\* Faulty variant of EndIteration: the next_token that ends the iteration
\* is left out.
EndIteration_NoAdvance(p, stmt) ==
    /\ statements' = statements \o stmt
    /\ Becomes(p)
    /\ pc' = IF Unwound(p) THEN "panic" ELSE "parse_program"
    /\ local' = << >>

\* the end of an iteration of parse_program's loop: push the statement if
\* there is one, then next_token
EndIteration(p, stmt) ==
    \E p1 \in {Parser_next_token(p)} :
        /\ statements' = statements \o stmt
        /\ Becomes(p1)
        /\ pc' = IF Unwound(p1) THEN "panic" ELSE "parse_program"
        /\ local' = << >>

\* One iteration of the loop of parse_program, up to the end of the
\* iteration or to the skip loop of parse_let_statement or
\* parse_return_statement.
ParseStatement ==
    /\ pc = "parse_program"
    /\ ~cur_token_is(Self, EOF)
    /\ \E r \in {parse_statement(Self)} :
           IF Unwound(r.p)
           THEN /\ Becomes(r.p)
                /\ pc' = "panic"
                /\ UNCHANGED <<statements, local>>
           ELSE IF r.at = "returned"
           THEN EndIteration(r.p, r.stmt)
           ELSE /\ Becomes(r.p)
                /\ pc' = r.at
                /\ local' = r.local
                /\ UNCHANGED statements
    /\ UNCHANGED <<tok, source, emitted>>

\* parse_let_statement: one turn of `while !cur_token_is(SEMICOLON)`
LetSkip ==
    /\ pc = "let_skip"
    /\ ~cur_token_is(Self, SEMICOLON)
    /\ lexer.read_position < lexer.input.len + MaxOverrun
    /\ \E p1 \in {Parser_next_token(Self)} :
           /\ Becomes(p1)
           /\ pc' = IF Unwound(p1) THEN "panic" ELSE pc
    /\ UNCHANGED <<tok, statements, local, source, emitted>>

\* parse_let_statement leaves its loop and returns the LetStatement
LetReturn ==
    /\ pc = "let_skip"
    /\ cur_token_is(Self, SEMICOLON)
    /\ EndIteration(Self, local)
    /\ UNCHANGED <<tok, source, emitted>>

\* parse_return_statement: one turn of `while !cur_token_is(SEMICOLON)`
ReturnSkip ==
    /\ pc = "return_skip"
    /\ ~cur_token_is(Self, SEMICOLON)
    /\ lexer.read_position < lexer.input.len + MaxOverrun
    /\ \E p1 \in {Parser_next_token(Self)} :
           /\ Becomes(p1)
           /\ pc' = IF Unwound(p1) THEN "panic" ELSE pc
    /\ UNCHANGED <<tok, statements, local, source, emitted>>

\* parse_return_statement leaves its loop and returns the ReturnStatement
ReturnReturn ==
    /\ pc = "return_skip"
    /\ cur_token_is(Self, SEMICOLON)
    /\ EndIteration(Self, local)
    /\ UNCHANGED <<tok, source, emitted>>

\* parse_program leaves its loop and returns the Program
ParseProgramReturn ==
    /\ pc = "parse_program"
    /\ cur_token_is(Self, EOF)
    /\ pc' = "done"
    /\ UNCHANGED <<lexer, tok, cur_token, peek_token, errors, statements,
                   local, panicked, source, emitted>>

Next ==
    \/ ParseStatement
    \/ LetSkip
    \/ LetReturn
    \/ ReturnSkip
    \/ ReturnReturn
    \/ ParseProgramReturn

Spec == Init /\ [][Next]_vars

-----------------------------------------------------------------------------
(* Claims about the Parser *)

\* index of the first `;` of ts at or after index i, 0 if there is none
RECURSIVE FirstSemicolon(_, _)
FirstSemicolon(ts, i) ==
    IF i > Len(ts) THEN 0
    ELSE IF ts[i].type = SEMICOLON THEN i
    ELSE FirstSemicolon(ts, i + 1)

Drop(ts, n) == SubSeq(ts, n + 1, Len(ts))

\* ts opens with `let <identifier> = ... ;`
OpensWithLet(ts) ==
    /\ Len(ts) >= 4
    /\ ts[1].type = LET_
    /\ ts[2].type = IDENT
    /\ ts[3].type = ASSIGN
    /\ FirstSemicolon(ts, 4) # 0

\* ts opens with `return ... ;`
OpensWithReturn(ts) ==
    /\ Len(ts) >= 2
    /\ ts[1].type = RETURN
    /\ FirstSemicolon(ts, 2) # 0

\* ts opens with a `let` that is not followed by an identifier, or by an
\* identifier that is not followed by `=`
OpensWithMalformedLet(ts) ==
    /\ Len(ts) >= 1
    /\ ts[1].type = LET_
    /\ \/ Len(ts) = 1
       \/ ts[2].type # IDENT
       \/ Len(ts) = 2
       \/ ts[3].type # ASSIGN

RECURSIVE IsLetSeq(_)
\* ts is a sequence of statements `let <identifier> = ... ;`
IsLetSeq(ts) ==
    \/ ts = << >>
    \/ /\ OpensWithLet(ts)
       /\ IsLetSeq(Drop(ts, FirstSemicolon(ts, 4)))

RECURSIVE LetNames(_)
\* the identifiers of a sequence of let statements, in source order
LetNames(ts) ==
    IF ts = << >> THEN << >>
    ELSE <<ts[2].literal>> \o LetNames(Drop(ts, FirstSemicolon(ts, 4)))

RECURSIVE IsReturnSeq(_)
\* ts is a sequence of statements `return ... ;`
IsReturnSeq(ts) ==
    \/ ts = << >>
    \/ /\ OpensWithReturn(ts)
       /\ IsReturnSeq(Drop(ts, FirstSemicolon(ts, 2)))

RECURSIVE CountType(_, _)
\* the number of tokens of ts whose type is t
CountType(ts, t) ==
    IF ts = << >> THEN 0
    ELSE (IF ts[1].type = t THEN 1 ELSE 0) + CountType(Tail(ts), t)

RECURSIVE IsLetOrReturnSeq(_)
\* ts is a sequence of statements `let <identifier> = ... ;` and `return ... ;`
IsLetOrReturnSeq(ts) ==
    \/ ts = << >>
    \/ /\ OpensWithLet(ts)
       /\ IsLetOrReturnSeq(Drop(ts, FirstSemicolon(ts, 4)))
    \/ /\ OpensWithReturn(ts)
       /\ IsLetOrReturnSeq(Drop(ts, FirstSemicolon(ts, 2)))

RECURSIVE StatementKinds(_)
\* the node kinds of a sequence of let and return statements, in order
StatementKinds(ts) ==
    IF ts = << >> THEN << >>
    ELSE IF ts[1].type = LET_
    THEN <<"LetStatement">> \o StatementKinds(Drop(ts, FirstSemicolon(ts, 4)))
    ELSE <<"ReturnStatement">> \o StatementKinds(Drop(ts, FirstSemicolon(ts, 2)))

\* s ends with the sequence e
EndsWith(s, e) ==
    /\ Len(e) <= Len(s)
    /\ SubSeq(s, Len(s) - Len(e) + 1, Len(s)) = e

NodeKinds(stmts) == [i \in 1..Len(stmts) |-> stmts[i].node]

\* parse_let_statement or parse_return_statement stands in its skip loop
\* with current = EOF: the Lexer has nothing but EOF left to give, so the
\* loop `while !cur_token_is(SEMICOLON)` never ends
Stuck ==
    /\ pc \in {"let_skip", "return_skip"}
    /\ cur_token_is(Self, EOF)

\* Once in its skip loop with current = EOF, the parser stays there: each turn
\* of the loop pulls one more EOF from the exhausted Lexer.
StuckIsForever == [][Stuck => Stuck']_vars

\* parse_program is over: it has returned, has panicked or cannot return
Over == pc = "done" \/ panicked \/ Stuck

\* C1: parse_program terminates on every finite input, a let or return
\* without `;` before the end of input included: the parser reaches
\* current = EOF only at the test of its top-level loop, where it returns;
\* it never stands in a statement parser with current = EOF.
C1_ParseProgramTerminates == ~Stuck

\* C2: on an input that opens with a malformed let statement, parse_program
\* completes without a panic, the error list holds at least one diagnostic,
\* and when well-formed let and return statements follow the malformed
\* statement's `;`, the Program ends with them.
C2_MalformedLetRecovers ==
    Over =>
        \A ts \in {source} :
            OpensWithMalformedLet(ts) =>
                /\ pc = "done"
                /\ Len(errors) >= 1
                /\ LET semi == FirstSemicolon(ts, 1)
                       rest == Drop(ts, semi)
                   IN  (semi # 0 /\ IsLetOrReturnSeq(rest)) =>
                           EndsWith(NodeKinds(statements), StatementKinds(rest))

\* C3: when a let statement fails an expect_peek check the statement is
\* abandoned up to its `;`: on an input made of a malformed let statement
\* through its `;` and then well-formed let statements, the Program holds
\* the statements that follow the `;` and no others.
C3_FailedLetIsAbandoned ==
    pc = "done" =>
        \A ts \in {source} :
            OpensWithMalformedLet(ts) =>
                LET semi == FirstSemicolon(ts, 1)
                    rest == Drop(ts, semi)
                IN  (semi # 0 /\ IsLetSeq(rest)) =>
                        Len(statements) = Len(LetNames(rest))

\* C4: when parse_expression is entered on a token kind without a prefix
\* strategy (any kind but IDENT), it appends the diagnostic
\* "no prefix parse function for <kind>" and no statement is produced.
C4_MissingPrefixIsReported ==
    [][(/\ pc = "parse_program"
        /\ cur_token # << >>
        /\ cur_token[1].type \notin {EOF, LET_, RETURN, IDENT}) =>
            /\ errors' = Append(errors, "no prefix parse function for "
                                          \o cur_token[1].type)
            /\ statements' = statements]_vars

\* C5: on a sequence of n statements `let <identifier> = ... ;`
\* parse_program returns; the Program has exactly n statements, the i-th a
\* LetStatement with token literal "let" whose name value and name token
\* literal are the i-th identifier; the error list is empty.
C5_LetStatements ==
    Over =>
        \A ts \in {source} :
            IsLetSeq(ts) =>
                \A names \in {LetNames(ts)} :
                    /\ pc = "done"
                    /\ errors = << >>
                    /\ Len(statements) = Len(names)
                    /\ \A i \in 1..Len(names) :
                        /\ statements[i].node = "LetStatement"
                        /\ token_literal(statements[i]) = "let"
                        /\ statements[i].name.value = names[i]
                        /\ token_literal(statements[i].name) = names[i]

\* C5 witness: `let z = 1; let y = 5;` has been parsed.
C5_Witness ==
    /\ pc = "done"
    /\ IsLetSeq(source)
    /\ LetNames(source) = <<"z", "y">>
    /\ Len(statements) = 2

\* C6: on a sequence of n statements `return ... ;` (the value may be
\* empty) parse_program returns; the Program has exactly n statements, each
\* a ReturnStatement with token literal "return"; the error list is empty.
C6_ReturnStatements ==
    Over =>
        \A ts \in {source} :
            IsReturnSeq(ts) =>
                /\ pc = "done"
                /\ errors = << >>
                /\ Len(statements) = Len(StatementKinds(ts))
                /\ \A i \in 1..Len(statements) :
                    /\ statements[i].node = "ReturnStatement"
                    /\ token_literal(statements[i]) = "return"

\* C6 witness: `return 5; return ;` has been parsed.
C6_Witness ==
    /\ pc = "done"
    /\ IsReturnSeq(source)
    /\ Len(source) = 5
    /\ CountType(source, SEMICOLON) = 2
    /\ source[2].type = INT
    /\ Len(statements) = 2

\* the source text is one identifier, with or without a `;` after it
IsLoneIdentifier(ts) ==
    /\ Len(ts) \in {1, 2}
    /\ ts[1].type = IDENT
    /\ Len(ts) = 2 => ts[2].type = SEMICOLON

\* C7: on a single non-keyword identifier, with or without a `;` after it,
\* parse_program returns exactly one statement, an ExpressionStatement whose
\* expression is an Identifier with value and token literal equal to the
\* identifier text; the error list is empty.
C7_IdentifierExpression ==
    Over =>
        \A ts \in {source} :
            IsLoneIdentifier(ts) =>
                /\ pc = "done"
                /\ errors = << >>
                /\ Len(statements) = 1
                /\ statements[1].node = "ExpressionStatement"
                /\ statements[1].expression.node = "Identifier"
                /\ statements[1].expression.value = ts[1].literal
                /\ token_literal(statements[1].expression) = ts[1].literal

\* C7 witness: `x ;` has been parsed.
C7_Witness ==
    /\ pc = "done"
    /\ IsLoneIdentifier(source)
    /\ Len(source) = 2
    /\ Len(statements) = 1

-----------------------------------------------------------------------------
(* Claims about the Lexer *)

\* every character of the input has been read: the cursor is past the end
Exhausted(l) == ~l.panic /\ l.position >= l.input.len

\* the character that directly follows the one at 0-based index i, if any
Following(s, i) == IF i + 2 <= Len(s) THEN <<s[i + 2]>> ELSE << >>

\* the characters with an arm of their own in next_token's match
OperatorChars == {"=", "!"} \cup (DOMAIN SingleCharArm \ {NUL})

\* a character that is not whitespace, an operator or delimiter, a letter or
\* underscore, or a digit (the end-of-input sentinel set aside)
OtherChar(c) ==
    /\ c \notin Whitespace
    /\ c \notin OperatorChars
    /\ ~is_letter(c)
    /\ ~IsNumeric(c)
    /\ c # NUL

C9_NoScanTimeFailure ==
    [][LET l1 == skip_whitespace(lexer)
       IN  /\ ~lexer'.panic
           /\ OtherChar(l1.ch) =>
                /\ tok' = <<Token(ILLEGAL, l1.ch)>>
                /\ lexer'.position = l1.position + 1]_vars

\* C10: on an ASCII text, when the current character is '=' or '!',
\* next_token emits EQ "==" or NEQ "!=" and consumes two characters if and
\* only if the character directly after it is '='; otherwise it emits
\* ASSIGN or BANG and consumes one character.
C10_TwoCharOperators ==
    [][LET l1 == skip_whitespace(lexer)
       IN  (IsAscii(lexer.input.chars) /\ l1.ch \in {"=", "!"}) =>
              IF Following(lexer.input.chars, l1.position) = <<"=">>
              THEN /\ tok' = <<Token(IF l1.ch = "=" THEN EQ ELSE NEQ, l1.ch \o "=")>>
                   /\ lexer'.position = l1.position + 2
              ELSE /\ tok' = <<Token(IF l1.ch = "=" THEN ASSIGN ELSE BANG, l1.ch)>>
                   /\ lexer'.position = l1.position + 1]_vars

\* C10 witness: "!==" has been lexed as NEQ then ASSIGN.
C10_Witness ==
    /\ lexer.input.chars = <<"!", "=", "=">>
    /\ tok = <<Token(ASSIGN, "=")>>
    /\ lexer.position = 3

-----------------------------------------------------------------------------
(* Claims about scanning *)

\* the character of the text s at index i (from 0), the sentinel past the end
CharAt(s, i) == IF i < Len(s) THEN s[i + 1] ELSE NUL

\* the letters and the underscore of ASCII
WordChars == AsciiLetters \cup {"_"}

RECURSIVE WordRunEnd(_, _)
\* the index (from 0) of the first character of s at or after i that is not
\* a letter or underscore, Len(s) if there is none
WordRunEnd(s, i) ==
    IF i < Len(s) /\ s[i + 1] \in WordChars THEN WordRunEnd(s, i + 1) ELSE i

RECURSIVE DigitRunEnd(_, _)
\* the same for digits
DigitRunEnd(s, i) ==
    IF i < Len(s) /\ s[i + 1] \in AsciiDigits THEN DigitRunEnd(s, i + 1) ELSE i

\* the keyword table as the language defines it
KeywordKind ==
    [w \in {"fn", "let", "true", "false", "if", "else", "return"} |->
        CASE w = "fn" -> FUNCTION
          [] w = "let" -> LET_
          [] w = "true" -> TRUE_
          [] w = "false" -> FALSE_
          [] w = "if" -> IF_
          [] w = "else" -> ELSE_
          [] w = "return" -> RETURN]

\* C11: on an ASCII text, when next_token stands (after whitespace) on a
\* letter or underscore, that character opens a maximal run of letters and
\* underscores and the token returned has the whole run as literal; its kind
\* is the keyword kind if the run is exactly fn, let, true, false, if, else
\* or return, and IDENT for every other run.
C11_KeywordsAndIdentifiers ==
    [][LET l1 == skip_whitespace(lexer)
           s  == lexer.input.chars
       IN  (IsAscii(s) /\ l1.ch \in WordChars) =>
              LET run == Concat(SubSeq(s, l1.position + 1,
                                         WordRunEnd(s, l1.position)))
              IN  /\ l1.position = 0 \/ s[l1.position] \notin WordChars
                  /\ tok' = <<Token(IF run \in DOMAIN KeywordKind
                                     THEN KeywordKind[run] ELSE IDENT,
                                     run)>>]_vars

\* C11 witness: the text `letter`, which opens with a keyword, has been
\* returned as one IDENT.
C11_Witness ==
    /\ lexer.input.chars = <<"l", "e", "t", "t", "e", "r">>
    /\ tok = <<Token(IDENT, "letter")>>

\* space, tab, newline and carriage return
BlankChars == {" ", "\t", "\n", "\r"}

\* the text s is made of blank characters only (the empty text is)
IsBlank(s) == \A i \in 1..Len(s) : s[i] \in BlankChars

\* C12: on an input made only of space, tab, newline and carriage return
\* characters, the empty input included, the first token next_token returns
\* is EOF with the empty literal.
C12_BlankInputGivesEof ==
    [][(emitted = << >> /\ IsBlank(lexer.input.chars)) =>
            /\ tok' = <<Token(EOF, "")>>
            /\ emitted' = <<Token(EOF, "")>>]_vars

\* C12 witness: a text of a tab and one more blank character has been
\* lexed, and the one token returned is EOF.
C12_Witness ==
    /\ Len(lexer.input.chars) = 2
    /\ IsBlank(lexer.input.chars)
    /\ lexer.input.chars[1] = "\t"
    /\ emitted = <<Token(EOF, "")>>

\* C13: scanning of identifiers and numbers is maximal munch and leaves the
\* terminating character unconsumed: on an ASCII text, after next_token has
\* returned a word (IDENT or keyword) or an INT, the literal is the whole run
\* and the Lexer's current character is the first character after the run,
\* which is where the next token starts.
C13_MaximalMunch ==
    [][LET l1 == skip_whitespace(lexer)
           s  == lexer.input.chars
       IN  (IsAscii(s) /\ l1.ch \in WordChars \cup AsciiDigits) =>
              LET end == IF l1.ch \in WordChars
                         THEN WordRunEnd(s, l1.position)
                         ELSE DigitRunEnd(s, l1.position)
              IN  /\ tok' # << >>
                  /\ tok'[1].literal = Concat(SubSeq(s, l1.position + 1, end))
                  /\ l1.ch \in AsciiDigits => tok'[1].type = INT
                  /\ lexer'.position = end
                  /\ lexer'.read_position = end + 1
                  /\ lexer'.ch = CharAt(s, end)]_vars

\* C13 witness: `10;` has been lexed as INT 10, SEMICOLON.
C13_Witness ==
    /\ lexer.input.chars = <<"1", "0", ";">>
    /\ emitted = <<Token(INT, "10"), Token(SEMICOLON, ";")>>

-----------------------------------------------------------------------------
(* Claims about the token cursor of the Parser *)

\* the kinds expect_peek is asked for below
ExpectKinds == {IDENT, ASSIGN, SEMICOLON, EOF, LET_, INT}

\* C14: expect_peek(kind), called on any Parser the parse reaches: if the
\* kind of peek is kind, it makes exactly one advance (current takes peek,
\* peek takes the next token of the Lexer), returns true and leaves the
\* error list as it is; otherwise it returns false, leaves current, peek and
\* the Lexer as they are and appends the one diagnostic
\* "expected next token to be <kind>, got <peek kind>" to the error list.
C14_ExpectPeekFrame ==
    (~panicked /\ peek_token # << >>) =>
        \A kind \in ExpectKinds :
            \A r \in {expect_peek(Self, kind)} :
                IF peek_token[1].type = kind
                THEN \A nt \in {Lexer_next_token(lexer)} :
                        /\ r.ok
                        /\ r.p.cur_token = peek_token
                        /\ r.p.peek_token = nt.tok
                        /\ r.p.lexer = nt.lexer
                        /\ r.p.errors = errors
                ELSE /\ ~r.ok
                     /\ r.p.cur_token = cur_token
                     /\ r.p.peek_token = peek_token
                     /\ r.p.lexer = lexer
                     /\ r.p.errors =
                            Append(errors, "expected next token to be " \o kind
                                             \o ", got " \o peek_token[1].type)

\* C14 witness: on a source that opens with `let =`, parse_let_statement has
\* called expect_peek(IDENT), which has failed and left its diagnostic.
C14_Witness ==
    /\ Len(source) >= 2
    /\ source[1].type = LET_
    /\ source[2].type = ASSIGN
    /\ errors # << >>
    /\ errors[1] = "expected next token to be IDENT, got ="

\* the i-th token (from 1) of the Lexer's stream over the source text: the
\* tokens of the source, then EOF for ever
StreamAt(i) ==
    IF 1 <= i /\ i <= Len(source) THEN source[i] ELSE Token(EOF, "")

\* C15: token cursor protocol.  Parser::new leaves the first and the second
\* token of the Lexer's stream in current and peek; in every state the
\* parse reaches by advancing, current and peek are populated, peek is the
\* token that directly follows current in the stream, and the tokens the
\* Lexer has not given out yet are those that follow peek: no token is
\* pulled twice and none is passed over.
C15_CursorProtocol ==
    ~panicked =>
        /\ \A p \in {Parser_new(Lexer_new(lexer.input.chars))} :
                /\ p.cur_token = <<StreamAt(1)>>
                /\ p.peek_token = <<StreamAt(2)>>
        /\ cur_token # << >>
        /\ peek_token # << >>
        /\ \A rest \in {LexAll(lexer)} :
             LET j == Len(source) - Len(rest)
             IN  IF peek_token[1].type # EOF
                 THEN /\ j >= 2
                      /\ peek_token[1] = source[j]
                      /\ cur_token[1] = source[j - 1]
                      /\ rest = Drop(source, j)
                 ELSE /\ rest = << >>
                      /\ \/ cur_token[1] = Token(EOF, "")
                         \/ /\ source # << >>
                            /\ cur_token[1] = source[Len(source)]

\* C15 witness: the parse of a source of at least four tokens stands with
\* current on the third token and peek on the fourth.
C15_Witness ==
    /\ Len(source) >= 4
    /\ source[3] # source[1]
    /\ source[4] # source[2]
    /\ cur_token = <<source[3]>>
    /\ peek_token = <<source[4]>>

-----------------------------------------------------------------------------
(* Claims about rendering *)

\* C16: rendering round trip.  For a Program of one LetStatement whose name
\* is a non-keyword identifier n, string() yields the text `let n = ;`, and
\* the Lexer over that text returns LET, IDENT with literal exactly n,
\* ASSIGN, SEMICOLON and then EOF.
C16_RenderRoundTrip ==
    pc = "lex" =>
        LET n == statements[1].name.value
            expected == <<Token(LET_, "let"), Token(IDENT, n),
                          Token(ASSIGN, "="), Token(SEMICOLON, ";")>>
        IN  /\ ~panicked
            /\ \E cs \in {SubSeq(lexer.input.chars, 5,
                                  Len(lexer.input.chars) - 4)} :
                    /\ Concat(cs) = n
                    /\ lexer.input.chars =
                          <<"l", "e", "t", " ">> \o cs \o <<" ", "=", " ", ";">>
            /\ \A i \in 1..Len(emitted) :
                    emitted[i] = IF i <= 4 THEN expected[i] ELSE Token(EOF, "")

\* C16 witness: the LetStatement named `le_` has been rendered and the text
\* lexed through its EOF.
C16_Witness ==
    /\ pc = "lex"
    /\ statements[1].name.value = "le_"
    /\ Len(emitted) = 5
    /\ emitted[2] = Token(IDENT, "le_")

-----------------------------------------------------------------------------
(* Claims about the REPL *)

\* the number of EOF tokens among ts
RECURSIVE CountEof(_)
CountEof(ts) ==
    IF ts = << >> THEN 0
    ELSE (IF Head(ts).type = EOF THEN 1 ELSE 0) + CountEof(Tail(ts))

\* C17: Lexer progress.  Every next_token call that returns a token other
\* than EOF moves the scan position on by at least one character; for a
\* line of n characters the Lexer has returned EOF by its call n+1; so the
\* inner loop of the REPL over an ASCII line prints the tokens of the line,
\* prints EOF exactly once, as the last token, and stops.
C17_LexerProgress ==
    /\ [][(pc = "repl_tokens" /\ tok' # << >> /\ tok'[1].type # EOF) =>
              lexer'.position >= lexer.position + 1]_vars
    /\ [](/\ Len(emitted) <= Len(lexer.input.chars) + 1
          /\ pc = "repl_break" =>
                /\ emitted # << >>
                /\ emitted[Len(emitted)] = Token(EOF, "")
                /\ CountEof(emitted) = 1
          /\ pc = "repl_tokens" => CountEof(emitted) = 0)
    /\ ((pc = "repl_tokens" /\ IsAscii(lexer.input.chars))
            ~> (pc = "repl_break"))

\* C17 witness: the line `x=` with its newline has been printed as three
\* tokens, the last the EOF, and the inner loop has been left.
C17_Witness ==
    /\ lexer.input.chars = <<"x", "=", "\n">>
    /\ pc = "repl_break"
    /\ emitted = <<Token(IDENT, "x"), Token(ASSIGN, "="), Token(EOF, "")>>

-----------------------------------------------------------------------------
(* Claims about the statements of the Parser *)

\* the skip loops of parse_let_statement and parse_return_statement
SkipLoops == {"let_skip", "return_skip"}

\* C18: a let or return statement that succeeds consumes the tokens up to
\* the first `;` after its `=` / `return` and no more.  The skip loop is
\* entered with current on the `=` (let) or on the token after `return`;
\* each turn is taken with current not `;`, moves current to the next token
\* and leaves the statements and the diagnostics as they are; the loop is
\* left with current on `;`, the one statement is appended, no diagnostic is
\* added, and parse_program goes on at the token directly after that `;`.
C18_SkipToSemicolon ==
    [][/\ (pc = "parse_program" /\ pc' = "let_skip") =>
              /\ cur_token[1].type = LET_
              /\ peek_token[1].type = IDENT
              /\ cur_token' = Lexer_next_token(lexer).tok
              /\ cur_token'[1].type = ASSIGN
              /\ local' = <<LetStatement(cur_token[1],
                                         Identifier(peek_token[1],
                                                    peek_token[1].literal))>>
              /\ statements' = statements
              /\ errors' = errors
       /\ (pc = "parse_program" /\ pc' = "return_skip") =>
              /\ cur_token[1].type = RETURN
              /\ cur_token' = peek_token
              /\ local' = <<ReturnStatement(cur_token[1])>>
              /\ statements' = statements
              /\ errors' = errors
       /\ (pc \in SkipLoops /\ pc' = pc) =>
              /\ cur_token[1].type # SEMICOLON
              /\ cur_token' = peek_token
              /\ local' = local
              /\ statements' = statements
              /\ errors' = errors
       /\ (pc \in SkipLoops /\ cur_token[1].type = SEMICOLON) =>
              /\ pc' = "parse_program"
              /\ statements' = Append(statements, local[1])
              /\ errors' = errors
              /\ cur_token' = peek_token]_vars

\* C18 witness: on `let y = 5; x` the let statement has succeeded, the
\* skipped 5 has left nothing, and parse_program stands on the x that
\* follows the `;`.
C18_Witness ==
    /\ Len(source) = 6
    /\ source[1].type = LET_
    /\ source[4].type = INT
    /\ source[5].type = SEMICOLON
    /\ source[6].type = IDENT
    /\ pc = "parse_program"
    /\ cur_token = <<source[6]>>
    /\ errors = << >>
    /\ Len(statements) = 1
    /\ statements[1].node = "LetStatement"

\* the statement stmt has one of the three shapes the Parser builds
WellShaped(stmt) ==
    \/ /\ stmt.node = "LetStatement"
       /\ stmt.token.type = LET_
    \/ /\ stmt.node = "ReturnStatement"
       /\ stmt.token.type = RETURN
    \/ /\ stmt.node = "ExpressionStatement"
       /\ stmt.token.type = IDENT
       /\ stmt.expression = Identifier(stmt.token, stmt.token.literal)

RECURSIVE InOrder(_, _)
\* the tokens ts occur in the tokens src in this order (ts is a
\* subsequence of src)
InOrder(ts, src) ==
    IF ts = << >> THEN TRUE
    ELSE IF src = << >> THEN FALSE
    ELSE IF Head(ts) = Head(src) THEN InOrder(Tail(ts), Tail(src))
    ELSE InOrder(ts, Tail(src))

\* C19: statement dispatch and shape.  The statements of the Program are
\* in source order, and each is a LetStatement on a LET token, a
\* ReturnStatement on a RETURN token, or an ExpressionStatement on an IDENT
\* token whose expression is the Identifier of that token.  parse_expression
\* does not move the cursor, so a statement that opens with an IDENT is one
\* ExpressionStatement that covers that token and a `;` directly after it:
\* parse_program goes on after the `;` if there is one, else on the token
\* after the IDENT.
C19_DispatchAndShape ==
    /\ [](/\ \A i \in 1..Len(statements) : WellShaped(statements[i])
          /\ InOrder([i \in 1..Len(statements) |-> statements[i].token],
                     source)
          /\ (~panicked /\ cur_token # << >>) =>
                parse_expression(Self, LOWEST).p = Self)
    /\ [][(pc = "parse_program" /\ cur_token[1].type = IDENT) =>
              /\ statements' =
                    Append(statements,
                           ExpressionStatement(cur_token[1],
                               Identifier(cur_token[1], cur_token[1].literal)))
              /\ errors' = errors
              /\ pc' = "parse_program"
              /\ cur_token' = IF peek_token[1].type = SEMICOLON
                               THEN Lexer_next_token(lexer).tok
                               ELSE peek_token]_vars

\* C19 witness: `x = x` has been parsed into two ExpressionStatements, the
\* `=` between them dropped.
C19_Witness ==
    /\ pc = "done"
    /\ Len(source) = 3
    /\ source[1].type = IDENT
    /\ source[2].type = ASSIGN
    /\ source[3].type = IDENT
    /\ Len(statements) = 2
    /\ statements[1].node = "ExpressionStatement"
    /\ statements[2].node = "ExpressionStatement"

-----------------------------------------------------------------------------
(* Claims about the token stream as a whole *)

RECURSIVE ConcatLiterals(_)
\* the literals of the tokens ts, one after the other
ConcatLiterals(ts) ==
    IF ts = << >> THEN ""
    ELSE Head(ts).literal \o ConcatLiterals(Tail(ts))

\* c is not one of space, tab, newline, carriage return
NotBlank(c) == c \notin BlankChars

\* C20: no character is lost or duplicated.  On an ASCII text without NUL
\* characters, when next_token has returned its first EOF, the literals of
\* the tokens returned before it, put one after the other, are the text
\* with its space, tab, newline and carriage return characters removed.
C20_NoCharacterLost ==
    LET s == lexer.input.chars
    IN  (/\ IsAscii(s)
         /\ \A i \in 1..Len(s) : s[i] # NUL
         /\ emitted # << >>
         /\ emitted[Len(emitted)].type = EOF
         /\ CountEof(emitted) = 1) =>
            /\ lexer.position >= Len(s)
            /\ ConcatLiterals(SubSeq(emitted, 1, Len(emitted) - 1))
                  = Concat(SelectSeq(s, NotBlank))

\* C20 witness: `x =5` has been lexed through its first EOF.
C20_Witness ==
    /\ lexer.input.chars = <<"x", " ", "=", "5">>
    /\ emitted = <<Token(IDENT, "x"), Token(ASSIGN, "="), Token(INT, "5"),
                   Token(EOF, "")>>

-----------------------------------------------------------------------------
(* Claims about the cursor slots *)

\* C21: no read of an empty cursor slot.  parse_let_statement and
\* parse_return_statement empty current with take(), and a let statement
\* that fails its first expect_peek returns with current still empty; all
\* the same no call has unwound on an empty slot, peek is populated in every
\* state, and wherever parse_program is about to call parse_statement,
\* current is populated and the whole call (parse_statement, the
\* parse_expression and the peek_error under it) runs without a panic on
\* None and leaves peek populated.
C21_NoEmptySlotRead ==
    /\ ~(panicked /\ ~lexer.panic)
    /\ pc # "panic"
    /\ peek_token # << >>
    /\ (pc = "parse_program" /\ ~cur_token_is(Self, EOF)) =>
            /\ cur_token # << >>
            /\ \A r \in {parse_statement(Self)} :
                    /\ ~r.p.panic
                    /\ r.p.peek_token # << >>
                    /\ ~peek_error(r.p, IDENT).panic

\* C21 witness: an earlier statement has failed, and parse_program stands
\* on a `let` whose parse_let_statement will return with current emptied by
\* take() (the token after `let` is no identifier), without a panic.
C21_Witness ==
    /\ pc = "parse_program"
    /\ errors # << >>
    /\ cur_token_is(Self, LET_)
    /\ parse_statement(Self).p.cur_token = << >>
    /\ ~parse_statement(Self).p.panic

-----------------------------------------------------------------------------
(* Claims about the end-of-input sentinel *)

\* C22: EOF only at the end.  When next_token has returned a token of kind
\* EOF, every character of the input has been consumed: the cursor does not
\* stand on a character of the input.
C22_EofOnlyAtEnd ==
    (pc = "lex" /\ ~panicked /\ tok # << >> /\ tok[1].type = EOF) =>
        lexer.position >= Len(lexer.input.chars)

\* C22 holds of the texts that hold no NUL character
C22_EofOnlyAtEndWithoutNul ==
    (\A i \in 1..Len(lexer.input.chars) : lexer.input.chars[i] # NUL) =>
        C22_EofOnlyAtEnd

====
